---- MODULE Spec2Model ----
(***************************************************************************)
(* State-machine model of the browser session engine of BrowserView        *)
(* (src/unnamed/part_002): navigation, the back/forward stack, the          *)
(* Loading timers, the download simulator and the bookmark manager.         *)
(*                                                                          *)
(* Strings are sequences of one-character strings, so that trim, includes,  *)
(* startsWith and encodeURIComponent are computed character by character.   *)
(* historyIndex is 0-based as in the source; history is a TLA+ sequence, so  *)
(* the source's history[i] is history[i + 1] here.                          *)
(***************************************************************************)
EXTENDS Integers, Sequences, FiniteSets, TLC

VARIABLES
    url,            \* usePersistentState 'chimera_url'
    history,        \* usePersistentState 'chimera_history_stack'
    historyIndex,   \* usePersistentState 'chimera_history_index'
    isLoading,      \* useState(false)
    internalPage,   \* useState 'newtab' | 'search' | 'external'
    searchQuery,    \* useState('')
    searchResults,  \* useState<SearchResult[]>([])
    bookmarks,      \* usePersistentState 'chimera_bookmarks'
    visitedHistory, \* usePersistentState 'chimera_visited_history'
    downloads,      \* usePersistentState 'chimera_downloads'
    adBlockStats,   \* usePersistentState 'chimera_adblock'
    showBookmarks,  \* useState(false)
    showDownloads,  \* useState(false)
    showHistory,    \* useState(false)
    timers,         \* pending setTimeout(() => setIsLoading(false), ...) callbacks
    urlEffect,      \* TRUE while the [url] effect of the last render has yet to run
    crashed,        \* an exception escaped an effect (the component tree is gone)
    consoleLog,     \* the console.error messages of the handler that ran last
    clock,          \* Date.now(), in ticks
    adBlockInterval,   \* time units until the ad-block setInterval fires; NoInterval when it is cleared
    netInterval,       \* time units until the network-stats setInterval fires
    downloadInterval,  \* time units until the download-progress setInterval fires
    netSpeed,       \* useState({ down: 0, up: 0 }): what the last sample was computed from
    theme,          \* usePersistentState 'chimera_theme'
    store,          \* localStorage: the text stored under each key
    lastOp          \* the handler that ran last and its argument

vars == <<url, history, historyIndex, isLoading, internalPage, searchQuery,
          searchResults, bookmarks, visitedHistory, downloads, adBlockStats,
          showBookmarks, showDownloads, showHistory, timers, urlEffect, crashed,
          consoleLog, clock, adBlockInterval, netInterval, downloadInterval, netSpeed,
          theme, store, lastOp>>

(***************************************************************************)
(* Bounds of the model.                                                     *)
(***************************************************************************)
MaxStack == 3       \* longest back/forward stack explored
MaxVisited == 2     \* longest visited-history log explored below the limit of the log
MaxTimers == 2      \* most Loading timers pending at once
MaxTokens == 3      \* inputs of the classification runs: at most this many tokens
MaxDownloads == 2   \* most download entries explored
MaxActive == 1      \* most entries downloading at once
MaxBookmarks == 3   \* longest bookmark sequence explored
MaxClock == 1       \* Date.now() values explored: 0..MaxClock
MaxBlocked == 1     \* most requests the ad-block interval counts as blocked

(***************************************************************************)
(* Strings.                                                                 *)
(***************************************************************************)
Str_newtab == <<"c","h","i","m","e","r","a",":","/","/","n","e","w","t","a","b">>
Str_chimera == <<"c","h","i","m","e","r","a",":","/","/">>
Str_search == <<"c","h","i","m","e","r","a",":","/","/","s","e","a","r","c","h">>
Str_searchq == Str_search \o <<"?","q","=">>
Str_sep == <<":","/","/">>
Str_http == <<"h","t","t","p">>
Str_https == <<"h","t","t","p","s",":","/","/">>
Str_qeq == <<"q","=">>

\* String.prototype.trim strips these from both ends
IsWhiteSpace(c) == c \in {" ", "\t", "\n"}

RECURSIVE TrimStart(_)
TrimStart(s) ==
    IF s # <<>> /\ IsWhiteSpace(Head(s)) THEN TrimStart(Tail(s)) ELSE s

RECURSIVE TrimEnd(_)
TrimEnd(s) ==
    IF s # <<>> /\ IsWhiteSpace(s[Len(s)])
    THEN TrimEnd(SubSeq(s, 1, Len(s) - 1)) ELSE s

Trim(s) == TrimEnd(TrimStart(s))

StartsWith(s, p) == Len(p) <= Len(s) /\ SubSeq(s, 1, Len(p)) = p

\* first position (1-based) at which sub occurs in s, 0 when it does not
IndexOf(s, sub) ==
    LET hits == {i \in 1..(Len(s) - Len(sub) + 1) : SubSeq(s, i, i + Len(sub) - 1) = sub}
    IN  IF hits = {} THEN 0 ELSE CHOOSE i \in hits : \A j \in hits : i <= j

Includes(s, sub) == IndexOf(s, sub) # 0

\* encodeURIComponent: A-Z a-z 0-9 - _ . ! ~ * ' ( ) are kept, every other
\* character becomes %XX of its UTF-8 bytes
EncodeChar(c) ==
    CASE c = " "  -> <<"%","2","0">>
      [] c = "\t" -> <<"%","0","9">>
      [] c = "\n" -> <<"%","0","A">>
      [] c = "%"  -> <<"%","2","5">>
      [] c = "/"  -> <<"%","2","F">>
      [] c = ":"  -> <<"%","3","A">>
      [] c = "="  -> <<"%","3","D">>
      [] c = "?"  -> <<"%","3","F">>
      [] OTHER    -> <<c>>

RECURSIVE EncodeURIComponent(_)
EncodeURIComponent(s) ==
    IF s = <<>> THEN <<>> ELSE EncodeChar(Head(s)) \o EncodeURIComponent(Tail(s))

\* the character a %XX escape stands for, "" when the model has no such escape
DecodeEscape(e) ==
    CASE e = <<"%","2","0">> -> " "
      [] e = <<"%","0","9">> -> "\t"
      [] e = <<"%","0","A">> -> "\n"
      [] e = <<"%","2","5">> -> "%"
      [] e = <<"%","2","F">> -> "/"
      [] e = <<"%","3","A">> -> ":"
      [] e = <<"%","3","D">> -> "="
      [] e = <<"%","3","F">> -> "?"
      [] OTHER -> ""

\* decodeURIComponent: the decoded string, or <<"URIError">> when an escape is malformed
URIError == <<"URIError">>

RECURSIVE DecodeURIComponent(_)
DecodeURIComponent(s) ==
    IF s = <<>> THEN <<>>
    ELSE IF Head(s) # "%"
         THEN LET rest == DecodeURIComponent(Tail(s))
              IN  IF rest = URIError THEN URIError ELSE <<Head(s)>> \o rest
         ELSE IF Len(s) < 3 \/ DecodeEscape(SubSeq(s, 1, 3)) = ""
              THEN URIError
              ELSE LET rest == DecodeURIComponent(SubSeq(s, 4, Len(s)))
                   IN  IF rest = URIError THEN URIError
                       ELSE <<DecodeEscape(SubSeq(s, 1, 3))>> \o rest

\* url.split('q=')[1] || '' : the piece between the first and the second 'q='
SplitQ1(u) ==
    LET i == IndexOf(u, Str_qeq)
    IN  IF i = 0 THEN <<>>
        ELSE LET rest == SubSeq(u, i + 2, Len(u))
                 j == IndexOf(rest, Str_qeq)
             IN  IF j = 0 THEN rest ELSE SubSeq(rest, 1, j - 1)

\* new URL(target).hostname for the URL shapes of the model: the text between
\* '://' and the next '/' or '?'; the parse fails (the caller keeps the raw
\* string) without a scheme, with an empty host or with a space in the host
Hostname(target) ==
    LET i == IndexOf(target, Str_sep)
    IN  IF i <= 1 THEN target
        ELSE LET rest == SubSeq(target, i + 3, Len(target))
                 cut == {k \in 1..Len(rest) : rest[k] \in {"/", "?"}}
                 n == IF cut = {} THEN Len(rest)
                      ELSE (CHOOSE k \in cut : \A m \in cut : k <= m) - 1
                 host == SubSeq(rest, 1, n)
             IN  IF host = <<>> \/ \E k \in 1..Len(host) : host[k] = " "
                 THEN target ELSE host

(***************************************************************************)
(* 32-bit integers, kept as two 16-bit limbs (the unsigned value is         *)
(* hi * 65536 + lo) so that no intermediate value leaves the integer range.  *)
(***************************************************************************)
Limb == 65536
HalfLimb == 32768

\* hash << 5
Shl5(h) == [hi |-> (h.hi * 32 + (h.lo * 32) \div Limb) % Limb, lo |-> (h.lo * 32) % Limb]

\* a - b, wrapped to 32 bits
Sub32(a, b) ==
    LET borrow == IF a.lo < b.lo THEN 1 ELSE 0
    IN  [hi |-> (a.hi - b.hi - borrow + 2 * Limb) % Limb, lo |-> (a.lo - b.lo + Limb) % Limb]

\* a + n for a small natural n, wrapped to 32 bits
Add32(a, n) == [hi |-> (a.hi + (a.lo + n) \div Limb) % Limb, lo |-> (a.lo + n) % Limb]

IsNegative32(h) == h.hi >= HalfLimb

\* Math.abs of the signed reading; abs(-2^31) is 2^31, which the limbs hold
Abs32(h) ==
    IF IsNegative32(h)
    THEN [hi |-> (Limb - 1 - h.hi + (IF h.lo = 0 THEN 1 ELSE 0)) % Limb,
          lo |-> (Limb - h.lo) % Limb]
    ELSE h

\* String.prototype.charCodeAt for the characters of the model
CharCode(c) ==
    CASE c = "\t" -> 9 [] c = "\n" -> 10 [] c = " " -> 32 [] c = "%" -> 37
      [] c = "-" -> 45 [] c = "." -> 46 [] c = "/" -> 47 [] c = "0" -> 48
      [] c = "2" -> 50 [] c = "3" -> 51 [] c = "5" -> 53 [] c = "9" -> 57
      [] c = ":" -> 58 [] c = "=" -> 61 [] c = "?" -> 63 [] c = "A" -> 65
      [] c = "D" -> 68 [] c = "F" -> 70 [] c = "a" -> 97 [] c = "b" -> 98
      [] c = "c" -> 99 [] c = "d" -> 100 [] c = "e" -> 101 [] c = "h" -> 104
      [] c = "i" -> 105 [] c = "m" -> 109 [] c = "n" -> 110 [] c = "p" -> 112
      [] c = "q" -> 113 [] c = "r" -> 114 [] c = "s" -> 115 [] c = "t" -> 116
      [] c = "w" -> 119 [] c = "G" -> 71 [] c = "Z" -> 90 [] c = "_" -> 95
      [] c = "y" -> 121

\* for (i...) { hash = ((hash << 5) - hash) + query.charCodeAt(i); hash |= 0; }
\* (next is evaluated by the test before the recursive call, which keeps the
\* depth of evaluation bounded on long queries; both branches are the same)
RECURSIVE HashFrom(_, _)
HashFrom(h, s) ==
    IF s = <<>> THEN h
    ELSE LET next == Add32(Sub32(Shl5(h), h), CharCode(Head(s)))
         IN  IF next.hi >= 0 THEN HashFrom(next, Tail(s)) ELSE HashFrom(next, Tail(s))

QueryHash(query) == HashFrom([hi |-> 0, lo |-> 0], query)

\* (seed + i) % 4, for 0 <= i < 8: Limb is a multiple of 4
SeedMod4(seed, i) == ((seed.lo % 4) + i) % 4

\* query.replace(/\s+/g, '-')
RECURSIVE Slug(_)
Slug(s) ==
    IF s = <<>> THEN <<>>
    ELSE IF IsWhiteSpace(Head(s))
         THEN <<"-">> \o Slug(TrimStart(s))
         ELSE <<Head(s)>> \o Slug(Tail(s))

ResultCount == 8
ResultTypes == <<"Official", "Wiki", "News", "Blog">>

\* a generator that leaves out Math.abs: the seed is the wrapped hash itself,
\* and the slot's residue modulo 4 is that of hash + i
GenerateMockResults_NoAbs(query) ==
    LET seed == QueryHash(query)
    IN  [k \in 1..ResultCount |->
            [id    |-> k - 1,
             title |-> [query |-> query, n |-> k, type |-> ResultTypes[SeedMod4(seed, k - 1) + 1]],
             url   |-> [slug |-> Slug(query), i |-> k - 1],
             snippet |-> query,
             ads   |-> SeedMod4(seed, k - 1) = 0]]

\* a generator that flags the slots whose seed is even: (resultSeed % 2) === 0
GenerateMockResults_AdsMod2(query) ==
    LET seed == Abs32(QueryHash(query))
    IN  [k \in 1..ResultCount |->
            [id    |-> k - 1,
             title |-> [query |-> query, n |-> k, type |-> ResultTypes[SeedMod4(seed, k - 1) + 1]],
             url   |-> [slug |-> Slug(query), i |-> k - 1],
             snippet |-> query,
             ads   |-> SeedMod4(seed, k - 1) % 2 = 0]]

\* a generator that salts the seed with Date.now()
GenerateMockResults_Salted(query) ==
    LET seed == Abs32(Add32(QueryHash(query), clock))
    IN  [k \in 1..ResultCount |->
            [id    |-> k - 1,
             title |-> [query |-> query, n |-> k, type |-> ResultTypes[SeedMod4(seed, k - 1) + 1]],
             url   |-> [slug |-> Slug(query), i |-> k - 1],
             snippet |-> query,
             ads   |-> SeedMod4(seed, k - 1) = 0]]

\* the SearchResult list that generateMockResults stores
GenerateMockResults(query) ==
    LET seed == Abs32(QueryHash(query))
    IN  [k \in 1..ResultCount |->
            [id    |-> k - 1,
             title |-> [query |-> query, n |-> k, type |-> ResultTypes[SeedMod4(seed, k - 1) + 1]],
             url   |-> [slug |-> Slug(query), i |-> k - 1],
             snippet |-> query,
             ads   |-> SeedMod4(seed, k - 1) = 0]]

(***************************************************************************)
(* The session: initial values and the helpers of navigate.                 *)
(***************************************************************************)
Str_NewTabTitle == <<"N","e","w"," ","T","a","b">>
Str_SearchTitle == <<"S","e","a","r","c","h",":"," ">>

HistoryLimit == 1000        \* .slice(0, 1000)
TimeUnitMs == 200           \* one step of Advance: every delay is a multiple of it
SearchLatencyMs == 600      \* setTimeout(..., isSearch ? 600 : 1200)
ExternalLatencyMs == 1200
DownloadPeriodMs == 200     \* setInterval(..., 200) of the download-progress effect
AdBlockPeriodMs == 800      \* setInterval(..., 800) of the ad-block effect
NetPeriodMs == 1000         \* setInterval(..., 1000) of the network-stats effect
NoInterval == -1            \* the ad-block effect has no interval running

Min(a, b) == IF a <= b THEN a ELSE b

\* an updater that forgets .slice(0, 1000)
AddToHistory_NoCap(prev, targetUrl, title) ==
    IF Len(prev) > 0 /\ prev[1].url = targetUrl THEN prev
    ELSE <<[title |-> IF title = <<>> THEN targetUrl ELSE title, url |-> targetUrl]>> \o prev

\* the updater of addToHistory (id and timestamp, both Date.now(), are left out)
AddToHistory(prev, targetUrl, title) ==
    IF Len(prev) > 0 /\ prev[1].url = targetUrl THEN prev
    ELSE SubSeq(<<[title |-> IF title = <<>> THEN targetUrl ELSE title,
                   url |-> targetUrl]>> \o prev,
                1, Min(HistoryLimit, Len(prev) + 1))

\* !target.includes('://') && !target.startsWith('chimera://')
NeedsHeuristic(target) == ~Includes(target, Str_sep) /\ ~StartsWith(target, Str_chimera)

\* a heuristic that forgets the space test
LooksLikeDomain_DotOnly(target) == Includes(target, <<".">>)

\* target.includes('.') && !target.includes(' ')
LooksLikeDomain(target) == Includes(target, <<".">>) /\ ~Includes(target, <<" ">>)

IsSearch(target) == NeedsHeuristic(target) /\ ~LooksLikeDomain(target)

\* if (!target.startsWith('http')) target = 'https://' + target
WithScheme(target) == IF ~StartsWith(target, Str_http) THEN Str_https \o target ELSE target

\* target after the URL-or-search heuristic
Normalise(target) ==
    IF NeedsHeuristic(target) /\ LooksLikeDomain(target) THEN WithScheme(target) ELSE target

\* a finalUrl that interpolates the query without encodeURIComponent
FinalUrl_RawQuery(target) ==
    IF IsSearch(target) THEN Str_searchq \o target ELSE Normalise(target)

\* finalUrl
FinalUrl(target) ==
    IF IsSearch(target) THEN Str_searchq \o EncodeURIComponent(target) ELSE Normalise(target)

\* a navigate that appends without slicing off the forward entries
PushHistory_NoTruncate(h, idx, u) == h \o <<u>>

\* newHistory = history.slice(0, historyIndex + 1); newHistory.push(u)
PushHistory(h, idx, u) == SubSeq(h, 1, Min(idx + 1, Len(h))) \o <<u>>

\* the timer that setTimeout(() => setIsLoading(false), isSearch ? 600 : 1200) adds
NewTimer(isSearch) ==
    LET d == (IF isSearch THEN SearchLatencyMs ELSE ExternalLatencyMs) \div TimeUnitMs
    IN  [delay |-> d, rem |-> d]

RemoveAt(s, k) == SubSeq(s, 1, k - 1) \o SubSeq(s, k + 1, Len(s))

\* lastOp: the handler, its argument, and a count: for navigate the forward
\* entries it discarded, for a timer the timers set after it that still pend,
\* for a download tick the entries it completed, for an import the length of
\* the array, for back and forward 1 when the index moved; a toggle records
\* the bookmarks it found, and 1 when the handler before it was a toggle as
\* well; the [url] effect records the handler whose render it follows
Op(name, arg, aux) == [op |-> name, arg |-> arg, aux |-> aux]

Idle == ~urlEffect /\ ~crashed

sessionVars == <<url, history, historyIndex, internalPage, searchQuery, searchResults>>
panelVars == <<showBookmarks, showDownloads, showHistory>>
tickVars == <<adBlockInterval, netInterval, downloadInterval, netSpeed>>

\* a user event of the time unit that has begun: the interval callbacks due at
\* its start have run
Quiet == Idle /\ adBlockInterval # 0 /\ netInterval # 0 /\ downloadInterval # 0

\* an effect without the early return on !adBlockStats.enabled
AdBlockIntervalAfter_IgnoresEnabled(loading, enabled) ==
    IF loading = isLoading /\ enabled = adBlockStats.enabled THEN adBlockInterval
    ELSE IF loading THEN AdBlockPeriodMs \div TimeUnitMs
    ELSE NoInterval

\* the ad-block effect, deps [isLoading, adBlockStats.enabled]: when a dep has
\* changed the old interval is cleared, and a new one is set if the blocker is
\* enabled and the page is loading
AdBlockIntervalAfter(loading, enabled) ==
    IF loading = isLoading /\ enabled = adBlockStats.enabled THEN adBlockInterval
    ELSE IF enabled /\ loading THEN AdBlockPeriodMs \div TimeUnitMs
    ELSE NoInterval

\* the network-stats effect, deps [isLoading, downloads]: when isLoading has
\* changed or setDownloads has stored a new array, the interval is cleared and
\* set again
NetIntervalAfter(loading, newDownloads) ==
    IF loading # isLoading \/ newDownloads THEN NetPeriodMs \div TimeUnitMs ELSE netInterval

(***************************************************************************)
(* usePersistentState: the defaults, and localStorage.  A stored text is a  *)
(* JSON document (JSON.stringify of a value: a string, a number, a boolean, *)
(* an array or an object) or text that JSON.parse rejects; a key may be     *)
(* absent.                                                                  *)
(***************************************************************************)
Str_wikipedia == <<"h","t","t","p","s",":","/","/","w","w","w",".","w","i","k","i","p","e","d","i","a",".","o","r","g">>
Str_hn == <<"h","t","t","p","s",":","/","/","n","e","w","s",".","y","c","o","m","b","i","n","a","t","o","r",".","c","o","m">>
Str_eff == <<"h","t","t","p","s",":","/","/","w","w","w",".","e","f","f",".","o","r","g">>

\* createdAt: Date.now()
SeedBookmarks ==
    <<[id |-> <<"seed", 1>>, title |-> <<"W","i","k","i","p","e","d","i","a">>, url |-> Str_wikipedia, createdAt |-> clock],
      [id |-> <<"seed", 2>>, title |-> <<"H","a","c","k","e","r"," ","N","e","w","s">>, url |-> Str_hn, createdAt |-> clock],
      [id |-> <<"seed", 3>>, title |-> <<"E","F","F">>, url |-> Str_eff, createdAt |-> clock]>>

InitialTotalBlocked == 1420     \* totalBlocked: 1420

\* the initialValue of each usePersistentState, by key
Defaults ==
    [chimera_url |-> Str_newtab,
     chimera_history_stack |-> <<Str_newtab>>,
     chimera_history_index |-> 0,
     chimera_theme |-> "dark",
     chimera_bookmarks |-> SeedBookmarks,
     chimera_visited_history |-> <<[title |-> Str_NewTabTitle, url |-> Str_newtab]>>,
     chimera_downloads |-> <<>>,
     chimera_adblock |-> [enabled |-> TRUE, totalBlocked |-> InitialTotalBlocked,
                          sessionBlocked |-> 0, strictMode |-> FALSE]]

StoreKeys == DOMAIN Defaults

\* the state of each usePersistentState, by key
Durable ==
    [chimera_url |-> url,
     chimera_history_stack |-> history,
     chimera_history_index |-> historyIndex,
     chimera_theme |-> theme,
     chimera_bookmarks |-> bookmarks,
     chimera_visited_history |-> visitedHistory,
     chimera_downloads |-> downloads,
     chimera_adblock |-> adBlockStats]

JString(v) == [json |-> "string", v |-> v]
JNumber(v) == [json |-> "number", v |-> v]
JBoolean(v) == [json |-> "boolean", v |-> v]
JArray(items) == [json |-> "array", v |-> items]
JObject(fields) == [json |-> "object", v |-> fields]

JStrings(seq) == JArray([i \in 1..Len(seq) |-> JString(seq[i])])
JBookmark(b) ==
    JObject([id |-> JString(b.id), title |-> JString(b.title), url |-> JString(b.url),
             createdAt |-> JNumber(b.createdAt)])
JHistoryItem(h) == JObject([title |-> JString(h.title), url |-> JString(h.url)])
JDownload(dl) ==
    JObject([filename |-> JString(dl.filename), progress |-> JNumber(dl.progress),
             status |-> JString(dl.status), size |-> JString(dl.size),
             type |-> JString(dl.type)])

\* JSON.stringify(state), for the state of a key
Stringify(key, v) ==
    CASE key = "chimera_url" -> JString(v)
      [] key = "chimera_history_stack" -> JStrings(v)
      [] key = "chimera_history_index" -> JNumber(v)
      [] key = "chimera_theme" -> JString(v)
      [] key = "chimera_bookmarks" -> JArray([i \in 1..Len(v) |-> JBookmark(v[i])])
      [] key = "chimera_visited_history" -> JArray([i \in 1..Len(v) |-> JHistoryItem(v[i])])
      [] key = "chimera_downloads" -> JArray([i \in 1..Len(v) |-> JDownload(v[i])])
      [] key = "chimera_adblock" ->
            JObject([enabled |-> JBoolean(v.enabled), totalBlocked |-> JNumber(v.totalBlocked),
                     sessionBlocked |-> JNumber(v.sessionBlocked),
                     strictMode |-> JBoolean(v.strictMode)])

\* JSON.parse(item), for a document
RECURSIVE Parse(_)
Parse(doc) ==
    CASE doc.json \in {"string", "number", "boolean"} -> doc.v
      [] doc.json = "array" -> [i \in 1..Len(doc.v) |-> Parse(doc.v[i])]
      [] doc.json = "object" -> [f \in DOMAIN doc.v |-> Parse(doc.v[f])]

Absent == [text |-> "absent"]          \* localStorage.getItem(key) === null
Malformed == [text |-> "malformed"]    \* JSON.parse(item) throws
StoredJson(doc) == [text |-> "json", doc |-> doc]

\* the initialiser of useState in usePersistentState
LoadItem(key, item) ==
    IF item.text = "json" THEN Parse(item.doc) ELSE Defaults[key]

\* what the initialiser writes with console.error
LoadErrors(key, item) ==
    IF item.text = "malformed" THEN <<<<"Error reading from localStorage", key>>>> ELSE <<>>

\* an effect that stores a key after the first render only
Saved_OnMountOnly == store' = store

\* the effect of usePersistentState, deps [key, state], for every key: a state
\* that has changed is stored
Saved ==
    store' = [key \in StoreKeys |->
                 IF Durable'[key] = Durable[key] THEN store[key]
                 ELSE StoredJson(Stringify(key, Durable'[key]))]

\* the same effect after the first render: every key is stored
SavedOnMount ==
    store' = [key \in StoreKeys |-> StoredJson(Stringify(key, Durable'[key]))]

(***************************************************************************)
(* navigate(input)                                                          *)
(***************************************************************************)
NavigateNewTab(input) ==
    LET newHistory == PushHistory(history, historyIndex, Str_newtab)
    IN  /\ internalPage' = "newtab"
        /\ url' = Str_newtab
        /\ visitedHistory' = AddToHistory(visitedHistory, Str_newtab, Str_NewTabTitle)
        /\ history' = newHistory
        /\ historyIndex' = Len(newHistory) - 1
        /\ urlEffect' = (url # Str_newtab)
        /\ lastOp' = Op("navigate", input, Len(history) - (historyIndex + 1))
        /\ UNCHANGED <<isLoading, searchQuery, searchResults, adBlockStats, timers,
                       adBlockInterval, netInterval>>

NavigateTarget(input, target) ==
    LET finalUrl == FinalUrl(target)
        newHistory == PushHistory(history, historyIndex, finalUrl)
    IN  /\ Len(timers) < MaxTimers
        /\ isLoading' = TRUE
        /\ adBlockInterval' = AdBlockIntervalAfter(TRUE, adBlockStats.enabled)
        /\ netInterval' = NetIntervalAfter(TRUE, FALSE)
        /\ adBlockStats' = [adBlockStats EXCEPT !.sessionBlocked = 0]
        /\ IF IsSearch(target)
           THEN /\ internalPage' = "search"
                /\ searchQuery' = target
                /\ searchResults' = GenerateMockResults(target)
                /\ visitedHistory' = AddToHistory(visitedHistory, finalUrl, Str_SearchTitle \o target)
           ELSE /\ internalPage' = "external"
                /\ visitedHistory' = AddToHistory(visitedHistory, Normalise(target),
                                                   Hostname(Normalise(target)))
                /\ UNCHANGED <<searchQuery, searchResults>>
        /\ url' = finalUrl
        /\ history' = newHistory
        /\ historyIndex' = Len(newHistory) - 1
        /\ timers' = Append(timers, NewTimer(IsSearch(target)))
        /\ urlEffect' = (url # finalUrl)
        /\ lastOp' = Op("navigate", input, Len(history) - (historyIndex + 1))

Navigate(input) ==
    /\ Quiet
    /\ historyIndex + 2 <= MaxStack
    /\ IF Trim(input) = Str_newtab \/ Trim(input) = <<>>
       THEN NavigateNewTab(input)
       ELSE NavigateTarget(input, Trim(input))
    /\ \/ Len(visitedHistory') <= MaxVisited
       \/ Len(visitedHistory) >= HistoryLimit
       \/ visitedHistory' = visitedHistory
    /\ UNCHANGED <<bookmarks, downloads, panelVars, crashed, consoleLog, clock,
                   downloadInterval, netSpeed, theme>>
    /\ Saved

(***************************************************************************)
(* The [url] effect: re-derives the page from the URL after a render in     *)
(* which url changed.  It runs before any other handler or timer.           *)
(***************************************************************************)
UrlSyncEffect ==
    /\ urlEffect
    /\ ~crashed
    /\ urlEffect' = FALSE
    /\ IF url = Str_newtab
       THEN /\ internalPage' = "newtab"
            /\ UNCHANGED <<searchQuery, searchResults, crashed>>
       ELSE IF StartsWith(url, Str_search)
            THEN LET q == DecodeURIComponent(SplitQ1(url))
                 IN  IF q = URIError
                     THEN /\ crashed' = TRUE
                          /\ UNCHANGED <<internalPage, searchQuery, searchResults>>
                     ELSE /\ internalPage' = "search"
                          /\ searchQuery' = q
                          /\ searchResults' = IF Len(searchResults) = 0
                                              THEN GenerateMockResults(q)
                                              ELSE searchResults
                          /\ UNCHANGED crashed
            ELSE /\ internalPage' = "external"
                 /\ UNCHANGED <<searchQuery, searchResults, crashed>>
    /\ lastOp' = Op("urlEffect", <<lastOp.op>>, 0)
    /\ UNCHANGED <<tickVars, url, history, historyIndex, isLoading, bookmarks, visitedHistory,
                   downloads, adBlockStats, panelVars, timers, consoleLog, clock, theme>>
    /\ Saved

(***************************************************************************)
(* handleBack, handleForward, the reload button, Reset Browser, Clear       *)
(* history                                                                  *)
(***************************************************************************)
\* a back button that wraps around to the newest entry at index 0
HandleBack_Wraps ==
    /\ Quiet
    /\ IF historyIndex > 0
       THEN /\ historyIndex' = historyIndex - 1
            /\ url' = history[historyIndex]
            /\ urlEffect' = (url # history[historyIndex])
       ELSE /\ historyIndex' = Len(history) - 1
            /\ url' = history[Len(history)]
            /\ urlEffect' = (url # history[Len(history)])
    /\ lastOp' = Op("back", <<>>, IF historyIndex > 0 THEN 1 ELSE 0)
    /\ UNCHANGED <<tickVars, history, isLoading, internalPage, searchQuery, searchResults, bookmarks,
                   visitedHistory, downloads, adBlockStats, panelVars, timers, crashed,
                   consoleLog, clock, theme>>
    /\ Saved

HandleBack ==
    /\ Quiet
    /\ IF historyIndex > 0
       THEN /\ historyIndex' = historyIndex - 1
            /\ url' = history[historyIndex]
            /\ urlEffect' = (url # history[historyIndex])
       ELSE UNCHANGED <<historyIndex, url, urlEffect>>
    /\ lastOp' = Op("back", <<>>, IF historyIndex > 0 THEN 1 ELSE 0)
    /\ UNCHANGED <<tickVars, history, isLoading, internalPage, searchQuery, searchResults, bookmarks,
                   visitedHistory, downloads, adBlockStats, panelVars, timers, crashed,
                   consoleLog, clock, theme>>
    /\ Saved

\* a forward button that moves the index and forgets setUrl(nextUrl)
HandleForward_KeepsUrl ==
    /\ Quiet
    /\ IF historyIndex < Len(history) - 1
       THEN /\ historyIndex' = historyIndex + 1
            /\ UNCHANGED <<url, urlEffect>>
       ELSE UNCHANGED <<historyIndex, url, urlEffect>>
    /\ lastOp' = Op("forward", <<>>, IF historyIndex < Len(history) - 1 THEN 1 ELSE 0)
    /\ UNCHANGED <<tickVars, history, isLoading, internalPage, searchQuery, searchResults, bookmarks,
                   visitedHistory, downloads, adBlockStats, panelVars, timers, crashed,
                   consoleLog, clock, theme>>
    /\ Saved

HandleForward ==
    /\ Quiet
    /\ IF historyIndex < Len(history) - 1
       THEN /\ historyIndex' = historyIndex + 1
            /\ url' = history[historyIndex + 2]
            /\ urlEffect' = (url # history[historyIndex + 2])
       ELSE UNCHANGED <<historyIndex, url, urlEffect>>
    /\ lastOp' = Op("forward", <<>>, IF historyIndex < Len(history) - 1 THEN 1 ELSE 0)
    /\ UNCHANGED <<tickVars, history, isLoading, internalPage, searchQuery, searchResults, bookmarks,
                   visitedHistory, downloads, adBlockStats, panelVars, timers, crashed,
                   consoleLog, clock, theme>>
    /\ Saved

Reload ==
    /\ Quiet
    /\ isLoading' = TRUE
    /\ adBlockInterval' = AdBlockIntervalAfter(TRUE, adBlockStats.enabled)
    /\ netInterval' = NetIntervalAfter(TRUE, FALSE)
    /\ lastOp' = Op("reload", <<>>, 0)
    /\ UNCHANGED <<downloadInterval, netSpeed, sessionVars, bookmarks, visitedHistory, downloads, adBlockStats,
                   panelVars, timers, urlEffect, crashed, consoleLog, clock, theme>>
    /\ Saved

\* a reset that forgets setHistoryIndex(0)
ResetBrowser_KeepsIndex ==
    /\ Quiet
    /\ history' = <<Str_newtab>>
    /\ visitedHistory' = <<>>
    /\ downloads' = <<>>
    /\ url' = Str_newtab
    /\ urlEffect' = (url # Str_newtab)
    /\ netInterval' = NetIntervalAfter(isLoading, TRUE)
    /\ lastOp' = Op("reset", <<>>, 0)
    /\ UNCHANGED <<adBlockInterval, downloadInterval, netSpeed, historyIndex, isLoading, internalPage, searchQuery, searchResults,
                   bookmarks, adBlockStats, panelVars, timers, crashed, consoleLog, clock, theme>>
    /\ Saved

ResetBrowser ==
    /\ Quiet
    /\ history' = <<Str_newtab>>
    /\ historyIndex' = 0
    /\ visitedHistory' = <<>>
    /\ downloads' = <<>>
    /\ url' = Str_newtab
    /\ urlEffect' = (url # Str_newtab)
    /\ netInterval' = NetIntervalAfter(isLoading, TRUE)
    /\ lastOp' = Op("reset", <<>>, 0)
    /\ UNCHANGED <<adBlockInterval, downloadInterval, netSpeed, isLoading, internalPage, searchQuery, searchResults, bookmarks,
                   adBlockStats, panelVars, timers, crashed, consoleLog, clock, theme>>
    /\ Saved

ClearHistory ==
    /\ Quiet
    /\ visitedHistory' = <<>>
    /\ lastOp' = Op("clearHistory", <<>>, 0)
    /\ UNCHANGED <<tickVars, sessionVars, isLoading, bookmarks, downloads, adBlockStats, panelVars,
                   timers, urlEffect, crashed, consoleLog, clock, theme>>
    /\ Saved

(***************************************************************************)
(* Time, the Loading timers and the intervals.  A timer is due when rem = 0 *)
(* and an interval when its count is 0; time does not advance past a due    *)
(* timer or interval.  Of two due timers the one set first runs first,      *)
(* unless its delay is the longer one (then either deadline may be the      *)
(* earlier, and either order can happen).                                   *)
(***************************************************************************)
MayFire(k) ==
    /\ timers[k].rem = 0
    /\ \A i \in 1..(k - 1) : timers[i].rem = 0 => timers[i].delay > timers[k].delay

\* () => setIsLoading(false)
TimerFire(k) ==
    /\ Idle
    /\ MayFire(k)
    /\ isLoading' = FALSE
    /\ adBlockInterval' = AdBlockIntervalAfter(FALSE, adBlockStats.enabled)
    /\ netInterval' = NetIntervalAfter(FALSE, FALSE)
    /\ timers' = RemoveAt(timers, k)
    /\ lastOp' = Op("timer", <<>>, Len(timers) - k)
    /\ UNCHANGED <<sessionVars, bookmarks, visitedHistory, downloads, adBlockStats,
                   panelVars, urlEffect, crashed, consoleLog, clock, downloadInterval,
                   netSpeed, theme>>
    /\ Saved

Advance ==
    /\ Idle
    /\ \A k \in 1..Len(timers) : timers[k].rem > 0
    /\ adBlockInterval # 0
    /\ netInterval > 0
    /\ downloadInterval > 0
    /\ timers' = [k \in 1..Len(timers) |-> [timers[k] EXCEPT !.rem = @ - 1]]
    /\ adBlockInterval' = IF adBlockInterval = NoInterval THEN NoInterval ELSE adBlockInterval - 1
    /\ netInterval' = netInterval - 1
    /\ downloadInterval' = downloadInterval - 1
    /\ lastOp' = Op("advance", <<>>, 0)
    /\ UNCHANGED <<sessionVars, isLoading, bookmarks, visitedHistory, downloads,
                   adBlockStats, panelVars, urlEffect, crashed, consoleLog, clock, netSpeed, theme>>
    /\ Saved

(***************************************************************************)
(* The ad-block interval and the network-stats interval.  MaxBlocked caps   *)
(* the requests counted as blocked since the defaults were stored.          *)
(***************************************************************************)
\* the callback of the ad-block interval; hit is Math.random() > 0.7
AdBlockTick(hit) ==
    /\ Idle
    /\ adBlockInterval = 0
    /\ adBlockInterval' = AdBlockPeriodMs \div TimeUnitMs
    /\ IF hit
       THEN /\ adBlockStats.totalBlocked < InitialTotalBlocked + MaxBlocked
            /\ adBlockStats' = [adBlockStats EXCEPT !.totalBlocked = @ + 1,
                                                    !.sessionBlocked = @ + 1]
       ELSE UNCHANGED adBlockStats
    /\ lastOp' = Op("adBlockTick", <<>>, IF hit THEN 1 ELSE 0)
    /\ UNCHANGED <<sessionVars, isLoading, bookmarks, visitedHistory, downloads, panelVars,
                   timers, urlEffect, crashed, consoleLog, clock, netInterval,
                   downloadInterval, netSpeed, theme>>
    /\ Saved

\* the callback of the network-stats interval: the sample is computed from
\* the isLoading and the downloads of the render that set the interval
NetworkTick ==
    /\ Idle
    /\ netInterval = 0
    /\ netInterval' = NetPeriodMs \div TimeUnitMs
    /\ netSpeed' = [sampled |-> TRUE, loading |-> isLoading,
                    active |-> Len(SelectSeq(downloads, LAMBDA dl : dl.status = "downloading"))]
    /\ lastOp' = Op("networkTick", <<>>, 0)
    /\ UNCHANGED <<sessionVars, isLoading, bookmarks, visitedHistory, downloads, adBlockStats,
                   panelVars, timers, urlEffect, crashed, consoleLog, clock, adBlockInterval,
                   downloadInterval, theme>>
    /\ Saved

\* the Ad Blocker switch of the settings panel
ToggleAdBlock ==
    /\ Quiet
    /\ adBlockStats' = [adBlockStats EXCEPT !.enabled = ~@]
    /\ adBlockInterval' = AdBlockIntervalAfter(isLoading, ~adBlockStats.enabled)
    /\ lastOp' = Op("toggleAdBlock", <<>>, 0)
    /\ UNCHANGED <<sessionVars, isLoading, bookmarks, visitedHistory, downloads, panelVars,
                   timers, urlEffect, crashed, consoleLog, clock, netInterval,
                   downloadInterval, netSpeed, theme>>
    /\ Saved

(***************************************************************************)
(* The download simulator.  progress is kept in whole percent and the       *)
(* increment Math.random() * 8 is one of 0..7.  id and date, both            *)
(* Date.now(), are left out of the entries.                                 *)
(***************************************************************************)
MaxIncrement == 8           \* Math.random() * 8
FullProgress == 100         \* newProgress >= 100

DownloadTypes == {"video", "file"}

\* a tick that completes an entry only once its progress has passed 100
\* a tick that completes an entry without clamping its progress to 100
TickItem_Unclamped(dl, r) ==
    IF dl.status = "downloading"
    THEN IF dl.progress + r >= FullProgress
         THEN [dl EXCEPT !.progress = dl.progress + r, !.status = "completed"]
         ELSE [dl EXCEPT !.progress = dl.progress + r]
    ELSE dl

TickItem_StrictlyAbove(dl, r) ==
    IF dl.status = "downloading"
    THEN IF dl.progress + r > FullProgress
         THEN [dl EXCEPT !.progress = FullProgress, !.status = "completed"]
         ELSE [dl EXCEPT !.progress = dl.progress + r]
    ELSE dl

\* the callback of prev.map in the download-progress interval
TickItem(dl, r) ==
    IF dl.status = "downloading"
    THEN IF dl.progress + r >= FullProgress
         THEN [dl EXCEPT !.progress = FullProgress, !.status = "completed"]
         ELSE [dl EXCEPT !.progress = dl.progress + r]
    ELSE dl

Downloading(dls) == {k \in 1..Len(dls) : dls[k].status = "downloading"}

DownloadTick ==
    /\ Idle
    /\ downloadInterval = 0
    /\ downloadInterval' = DownloadPeriodMs \div TimeUnitMs
    /\ netInterval' = NetIntervalAfter(isLoading, TRUE)
    /\ \E r \in [1..Len(downloads) -> 0..(MaxIncrement - 1)] :
          /\ \A k \in 1..Len(downloads) : downloads[k].status # "downloading" => r[k] = 0
          /\ downloads' = [k \in 1..Len(downloads) |-> TickItem(downloads[k], r[k])]
    /\ lastOp' = Op("downloadTick", <<>>,
                    Cardinality(Downloading(downloads)) - Cardinality(Downloading(downloads')))
    /\ UNCHANGED <<adBlockInterval, netSpeed, sessionVars, isLoading, bookmarks, visitedHistory, adBlockStats,
                   panelVars, timers, urlEffect, crashed, consoleLog, clock, theme>>
    /\ Saved

\* a startDownload that puts the new entry last: [...prev, newDl]
StartDownload_Appends(filename, type) ==
    /\ Quiet
    /\ Len(downloads) < MaxDownloads
    /\ Cardinality(Downloading(downloads)) < MaxActive
    /\ downloads' = downloads \o <<[filename |-> filename,
                                    progress |-> 0,
                                    status |-> "downloading",
                                    size |-> IF type = "video" THEN "145.2 MB" ELSE "12.5 MB",
                                    type |-> type]>>
    /\ showDownloads' = TRUE
    /\ netInterval' = NetIntervalAfter(isLoading, TRUE)
    /\ lastOp' = Op("startDownload", <<filename, type>>, 0)
    /\ UNCHANGED <<adBlockInterval, downloadInterval, netSpeed, sessionVars, isLoading, bookmarks, visitedHistory, adBlockStats,
                   showBookmarks, showHistory, timers, urlEffect, crashed, consoleLog, clock, theme>>
    /\ Saved

\* startDownload(simulatedFilename, type)
StartDownload(filename, type) ==
    /\ Quiet
    /\ Len(downloads) < MaxDownloads
    /\ Cardinality(Downloading(downloads)) < MaxActive
    /\ downloads' = <<[filename |-> filename,
                       progress |-> 0,
                       status |-> "downloading",
                       size |-> IF type = "video" THEN "145.2 MB" ELSE "12.5 MB",
                       type |-> type]>> \o downloads
    /\ showDownloads' = TRUE
    /\ netInterval' = NetIntervalAfter(isLoading, TRUE)
    /\ lastOp' = Op("startDownload", <<filename, type>>, 0)
    /\ UNCHANGED <<adBlockInterval, downloadInterval, netSpeed, sessionVars, isLoading, bookmarks, visitedHistory, adBlockStats,
                   showBookmarks, showHistory, timers, urlEffect, crashed, consoleLog, clock, theme>>
    /\ Saved

\* the Clear button of the downloads panel
ClearDownloads ==
    /\ Quiet
    /\ downloads' = <<>>
    /\ netInterval' = NetIntervalAfter(isLoading, TRUE)
    /\ lastOp' = Op("clearDownloads", <<>>, 0)
    /\ UNCHANGED <<adBlockInterval, downloadInterval, netSpeed, sessionVars, isLoading, bookmarks, visitedHistory, adBlockStats,
                   panelVars, timers, urlEffect, crashed, consoleLog, clock, theme>>
    /\ Saved

\* ---- side panels (part_002:155-182, 489-512, 680-770) ----

Panels == {"bookmarks", "history", "downloads"}

Shown(panel) ==
    CASE panel = "bookmarks" -> showBookmarks
      [] panel = "history" -> showHistory
      [] panel = "downloads" -> showDownloads

\* how many panels are rendered
VisiblePanels == Cardinality({panel \in Panels : Shown(panel)})

\* the keys the keydown listener acts on while Cmd or Ctrl is held
PanelKeys == {"b", "h", "j"}

\* handleKeyDown for Cmd/Ctrl + key: the key's panel is toggled with a
\* functional update, the two others are set to false; lastOp.aux tells
\* whether another panel was shown at the time
HandleKeyDown(key) ==
    /\ Quiet
    /\ key \in PanelKeys
    /\ showBookmarks' = (key = "b" /\ ~showBookmarks)
    /\ showHistory' = (key = "h" /\ ~showHistory)
    /\ showDownloads' = (key = "j" /\ ~showDownloads)
    /\ lastOp' = Op("keydown", <<key>>,
                    IF \/ key # "b" /\ showBookmarks
                       \/ key # "h" /\ showHistory
                       \/ key # "j" /\ showDownloads THEN 1 ELSE 0)
    /\ UNCHANGED <<tickVars, sessionVars, isLoading, bookmarks, visitedHistory, downloads,
                   adBlockStats, timers, urlEffect, crashed, consoleLog, clock, theme>>
    /\ Saved

PanelButton_KeepsOthers(panel) ==
    /\ Quiet
    /\ panel \in Panels
    /\ showDownloads' = IF panel = "downloads" THEN ~showDownloads ELSE showDownloads
    /\ showBookmarks' = IF panel = "bookmarks" THEN ~showBookmarks ELSE showBookmarks
    /\ showHistory' = IF panel = "history" THEN ~showHistory ELSE showHistory
    /\ lastOp' = Op("panelButton", <<panel>>,
                    IF \E other \in Panels \ {panel} : Shown(other) THEN 1 ELSE 0)
    /\ UNCHANGED <<tickVars, sessionVars, isLoading, bookmarks, visitedHistory, downloads,
                   adBlockStats, timers, urlEffect, crashed, consoleLog, clock, theme>>
    /\ Saved

\* the onClick of a toolbar feature button: its panel is set to the negation
\* of the rendered value, the two others to false
PanelButton(panel) ==
    /\ Quiet
    /\ panel \in Panels
    /\ showDownloads' = (panel = "downloads" /\ ~showDownloads)
    /\ showBookmarks' = (panel = "bookmarks" /\ ~showBookmarks)
    /\ showHistory' = (panel = "history" /\ ~showHistory)
    /\ lastOp' = Op("panelButton", <<panel>>,
                    IF \E other \in Panels \ {panel} : Shown(other) THEN 1 ELSE 0)
    /\ UNCHANGED <<tickVars, sessionVars, isLoading, bookmarks, visitedHistory, downloads,
                   adBlockStats, timers, urlEffect, crashed, consoleLog, clock, theme>>
    /\ Saved

\* the X button in a panel's header; the button exists while the panel is
\* rendered
ClosePanel(panel) ==
    /\ Quiet
    /\ panel \in Panels
    /\ Shown(panel)
    /\ showBookmarks' = (showBookmarks /\ panel # "bookmarks")
    /\ showHistory' = (showHistory /\ panel # "history")
    /\ showDownloads' = (showDownloads /\ panel # "downloads")
    /\ lastOp' = Op("closePanel", <<panel>>, 0)
    /\ UNCHANGED <<tickVars, sessionVars, isLoading, bookmarks, visitedHistory, downloads,
                   adBlockStats, timers, urlEffect, crashed, consoleLog, clock, theme>>
    /\ Saved

\* `video_${Math.floor(Math.random() * 1000)}.mp4`
VideoFilename(n) == <<"video_", n, ".mp4">>

\* handleMediaGrab, the only caller of startDownload: the submit handler of
\* the Media Grabber form, which is rendered inside the downloads panel
\* (`showDownloads && ...`); it returns at once when mediaUrl is empty
HandleMediaGrab(mediaUrl, n) ==
    /\ showDownloads
    /\ mediaUrl # <<>>
    /\ StartDownload(VideoFilename(n), "video")

(***************************************************************************)
(* The bookmark manager.  consoleLog holds what the last import wrote with  *)
(* console.error.  An import file is malformed text, or the JSON text of an *)
(* object, of a scalar or of an array.                                      *)
(***************************************************************************)
\* the title that toggleBookmark derives from the page
BookmarkTitle ==
    IF internalPage = "search" THEN Str_SearchTitle \o searchQuery
    ELSE IF internalPage = "newtab" THEN Str_NewTabTitle
    ELSE Hostname(url)

NewBookmark == [id |-> <<"now", clock>>, title |-> BookmarkTitle, url |-> url, createdAt |-> clock]

\* prev.filter(b => b.url !== u)
WithoutUrl(bms, u) == SelectSeq(bms, LAMBDA b : b.url # u)

\* prev.filter(x => x.id !== id)
WithoutId(bms, id) == SelectSeq(bms, LAMBDA b : b.id # id)

IsBookmarked(bms, u) == \E k \in 1..Len(bms) : bms[k].url = u

\* a toggle that puts the new bookmark first
ToggledBookmarks_Prepend(bms) ==
    IF IsBookmarked(bms, url) THEN WithoutUrl(bms, url) ELSE <<NewBookmark>> \o bms

\* the bookmark sequence after toggleBookmark
ToggledBookmarks(bms) ==
    IF IsBookmarked(bms, url) THEN WithoutUrl(bms, url) ELSE bms \o <<NewBookmark>>

ToggleBookmark ==
    /\ Quiet
    /\ Len(ToggledBookmarks(bookmarks)) <= MaxBookmarks
    /\ bookmarks' = ToggledBookmarks(bookmarks)
    /\ lastOp' = Op("toggle", bookmarks, IF lastOp.op = "toggle" THEN 1 ELSE 0)
    /\ UNCHANGED <<tickVars, sessionVars, isLoading, visitedHistory, downloads, adBlockStats,
                   panelVars, timers, urlEffect, crashed, consoleLog, clock, theme>>
    /\ Saved

\* the delete button of a row of the bookmarks panel
DeleteBookmark(id) ==
    /\ Quiet
    /\ bookmarks' = WithoutId(bookmarks, id)
    /\ lastOp' = Op("delete", <<>>, 0)
    /\ UNCHANGED <<tickVars, sessionVars, isLoading, visitedHistory, downloads, adBlockStats,
                   panelVars, timers, urlEffect, crashed, consoleLog, clock, theme>>
    /\ Saved

\* the file that exportBookmarks writes: JSON.stringify(bookmarks)
ExportDocument == [kind |-> "array", items |-> bookmarks]

Str_example == <<"h","t","t","p","s",":","/","/","e",".","g">>

ImportDocuments ==
    {[kind |-> "malformed", items |-> <<>>],
     [kind |-> "object", items |-> <<>>],
     [kind |-> "scalar", items |-> <<>>],
     [kind |-> "array", items |-> <<>>],
     [kind |-> "array",
      items |-> <<[id |-> <<"file", 1>>, title |-> <<"e">>, url |-> Str_example, createdAt |-> 0]>>],
     ExportDocument}

\* the render that follows a change of the bookmarks: the bookmarks bar calls
\* getFavicon(b.url) for every element, and targetUrl.startsWith throws for
\* an element that has no url; the component is then unmounted before any
\* effect of that render runs
RendersBookmarks(bms) == \A k \in 1..Len(bms) : "url" \in DOMAIN bms[k]

\* an import that spreads whatever JSON.parse returned: spreading an object
\* or a number throws in the state updater, outside the try
ImportBookmarks_NoShapeCheck(doc) ==
    /\ Quiet
    /\ Len(bookmarks) + Len(doc.items) <= MaxBookmarks
    /\ IF doc.kind = "malformed"
       THEN /\ consoleLog' = <<"Invalid bookmark file">>
            /\ UNCHANGED <<bookmarks, crashed>>
       ELSE IF doc.kind = "array"
            THEN /\ bookmarks' = bookmarks \o doc.items
                 /\ consoleLog' = <<>>
                 /\ UNCHANGED crashed
            ELSE /\ crashed' = TRUE
                 /\ consoleLog' = <<>>
                 /\ UNCHANGED bookmarks
    /\ lastOp' = Op("import", <<doc.kind>>, Len(doc.items))
    /\ UNCHANGED <<tickVars, sessionVars, isLoading, visitedHistory, downloads, adBlockStats,
                   panelVars, timers, urlEffect, clock, theme>>
    /\ Saved

\* importBookmarks, with the onload handler of its FileReader
ImportBookmarks(doc) ==
    /\ Quiet
    /\ Len(bookmarks) + Len(doc.items) <= MaxBookmarks
    /\ IF doc.kind = "malformed"
       THEN /\ consoleLog' = <<"Invalid bookmark file">>
            /\ UNCHANGED bookmarks
       ELSE /\ bookmarks' = IF doc.kind = "array" THEN bookmarks \o doc.items ELSE bookmarks
            /\ consoleLog' = <<>>
    /\ lastOp' = Op("import", <<doc.kind>>, Len(doc.items))
    /\ crashed' = ~RendersBookmarks(bookmarks')
    /\ UNCHANGED <<tickVars, sessionVars, isLoading, visitedHistory, downloads, adBlockStats,
                   panelVars, timers, urlEffect, clock, theme>>
    /\ IF RendersBookmarks(bookmarks') THEN Saved ELSE UNCHANGED store

\* Date.now() moves on between two events
ClockAdvance ==
    /\ clock < MaxClock
    /\ clock' = clock + 1
    /\ UNCHANGED <<tickVars, sessionVars, isLoading, bookmarks, visitedHistory, downloads,
                   adBlockStats, panelVars, timers, urlEffect, crashed, consoleLog, lastOp, theme>>
    /\ Saved

(***************************************************************************)
(* The state after construction, with an empty localStorage: every          *)
(* usePersistentState takes its default and the mount effects have run.     *)
(***************************************************************************)
Init ==
    /\ clock = 0
    /\ url = Str_newtab
    /\ history = <<Str_newtab>>
    /\ historyIndex = 0
    /\ isLoading = FALSE
    /\ internalPage = "newtab"
    /\ searchQuery = <<>>
    /\ searchResults = <<>>
    /\ bookmarks = SeedBookmarks
    /\ visitedHistory = Defaults.chimera_visited_history
    /\ downloads = <<>>
    /\ adBlockStats = Defaults.chimera_adblock
    /\ showBookmarks = FALSE
    /\ showDownloads = FALSE
    /\ showHistory = FALSE
    /\ timers = <<>>
    /\ urlEffect = FALSE
    /\ crashed = FALSE
    /\ consoleLog = <<>>
    /\ adBlockInterval = NoInterval
    /\ netInterval = NetPeriodMs \div TimeUnitMs
    /\ downloadInterval = DownloadPeriodMs \div TimeUnitMs
    /\ netSpeed = [sampled |-> FALSE, loading |-> FALSE, active |-> 0]
    /\ theme = "dark"
    /\ store = [key \in StoreKeys |-> StoredJson(Stringify(key, Defaults[key]))]
    /\ lastOp = Op("init", <<>>, 0)

(***************************************************************************)
(* The theme buttons of the settings panel, and a restart of the process:   *)
(* BrowserView is constructed again and every usePersistentState reads its  *)
(* key.  While the process was down the text of one key may have been       *)
(* removed or damaged.                                                      *)
(***************************************************************************)
Themes == {"dark", "light"}

SetTheme(t) ==
    /\ Quiet
    /\ theme' = t
    /\ lastOp' = Op("setTheme", <<t>>, 0)
    /\ UNCHANGED <<sessionVars, isLoading, bookmarks, visitedHistory, downloads, adBlockStats,
                   panelVars, timers, urlEffect, crashed, consoleLog, clock, tickVars>>
    /\ Saved

\* the keys in the order of their usePersistentState calls
KeyOrder ==
    <<"chimera_url", "chimera_history_stack", "chimera_history_index", "chimera_theme",
      "chimera_bookmarks", "chimera_visited_history", "chimera_downloads", "chimera_adblock">>

RECURSIVE LoadLog(_, _)
LoadLog(items, keys) ==
    IF keys = <<>> THEN <<>>
    ELSE LoadErrors(Head(keys), items[Head(keys)]) \o LoadLog(items, Tail(keys))

\* what a restart can find in localStorage
FoundItems ==
    {store} \cup {[store EXCEPT ![key] = item] : key \in StoreKeys, item \in {Absent, Malformed}}

\* a restart that reads a key without the try of the initialiser
Restart_NoCatch(items) ==
    /\ url' = LoadItem("chimera_url", items.chimera_url)
    /\ history' = LoadItem("chimera_history_stack", items.chimera_history_stack)
    /\ historyIndex' = LoadItem("chimera_history_index", items.chimera_history_index)
    /\ theme' = LoadItem("chimera_theme", items.chimera_theme)
    /\ bookmarks' = LoadItem("chimera_bookmarks", items.chimera_bookmarks)
    /\ visitedHistory' = LoadItem("chimera_visited_history", items.chimera_visited_history)
    /\ downloads' = LoadItem("chimera_downloads", items.chimera_downloads)
    /\ adBlockStats' = LoadItem("chimera_adblock", items.chimera_adblock)
    /\ consoleLog' = <<>>
    /\ crashed' = (LoadLog(items, KeyOrder) # <<>>)
    /\ isLoading' = FALSE
    /\ internalPage' = "newtab"
    /\ searchQuery' = <<>>
    /\ searchResults' = <<>>
    /\ showBookmarks' = FALSE
    /\ showDownloads' = FALSE
    /\ showHistory' = FALSE
    /\ timers' = <<>>
    /\ urlEffect' = TRUE
    /\ adBlockInterval' = NoInterval
    /\ netInterval' = NetPeriodMs \div TimeUnitMs
    /\ downloadInterval' = DownloadPeriodMs \div TimeUnitMs
    /\ netSpeed' = [sampled |-> FALSE, loading |-> FALSE, active |-> 0]
    /\ lastOp' = Op("restart", SelectSeq(KeyOrder, LAMBDA key : items[key].text # "json"),
                    Cardinality({key \in StoreKeys : items[key].text = "malformed"}))
    /\ UNCHANGED clock
    /\ SavedOnMount

\* the construction of BrowserView over the items found, up to its first
\* render and the effects that store every key; the [url] effect is pending.
\* lastOp records the keys that held no JSON document, and how many of them
\* held damaged text
Restart(items) ==
    /\ url' = LoadItem("chimera_url", items.chimera_url)
    /\ history' = LoadItem("chimera_history_stack", items.chimera_history_stack)
    /\ historyIndex' = LoadItem("chimera_history_index", items.chimera_history_index)
    /\ theme' = LoadItem("chimera_theme", items.chimera_theme)
    /\ bookmarks' = LoadItem("chimera_bookmarks", items.chimera_bookmarks)
    /\ visitedHistory' = LoadItem("chimera_visited_history", items.chimera_visited_history)
    /\ downloads' = LoadItem("chimera_downloads", items.chimera_downloads)
    /\ adBlockStats' = LoadItem("chimera_adblock", items.chimera_adblock)
    /\ consoleLog' = LoadLog(items, KeyOrder)
    /\ crashed' = FALSE
    /\ isLoading' = FALSE
    /\ internalPage' = "newtab"
    /\ searchQuery' = <<>>
    /\ searchResults' = <<>>
    /\ showBookmarks' = FALSE
    /\ showDownloads' = FALSE
    /\ showHistory' = FALSE
    /\ timers' = <<>>
    /\ urlEffect' = TRUE
    /\ adBlockInterval' = NoInterval
    /\ netInterval' = NetPeriodMs \div TimeUnitMs
    /\ downloadInterval' = DownloadPeriodMs \div TimeUnitMs
    /\ netSpeed' = [sampled |-> FALSE, loading |-> FALSE, active |-> 0]
    /\ lastOp' = Op("restart", SelectSeq(KeyOrder, LAMBDA key : items[key].text # "json"),
                    Cardinality({key \in StoreKeys : items[key].text = "malformed"}))
    /\ UNCHANGED clock
    /\ SavedOnMount

(***************************************************************************)
(* Navigation: the address bar receives one of a few inputs.  The ad-block  *)
(* interval runs and finds nothing to block (SpecAdBlock explores the       *)
(* counting).                                                               *)
(***************************************************************************)
In_hostA == <<"a", ".", "b">>
In_query == <<"a", " ", "b">>
In_empty == <<>>

NavInputs == {In_hostA, In_query, In_empty}

Next ==
    \/ \E input \in NavInputs : Navigate(input)
    \/ UrlSyncEffect
    \/ HandleBack
    \/ HandleForward
    \/ Reload
    \/ ResetBrowser
    \/ ClearHistory
    \/ \E k \in 1..Len(timers) : TimerFire(k)
    \/ AdBlockTick(FALSE)
    \/ DownloadTick
    \/ Advance

Spec == Init /\ [][Next]_vars

(***************************************************************************)
(* Classification: the first navigation of a fresh session, with every      *)
(* input made of at most MaxTokens of these pieces.                         *)
(***************************************************************************)
Tokens == {<<"a">>, <<".">>, <<" ">>, <<"\t">>, <<"%">>, Str_sep, Str_http, Str_newtab, Str_searchq}

RECURSIVE TokenStrings(_)
TokenStrings(n) ==
    IF n = 0 THEN {<<>>}
    ELSE LET shorter == TokenStrings(n - 1)
         IN  shorter \cup {t \o s : t \in Tokens, s \in shorter}

ClassifyInputs == TokenStrings(MaxTokens)

ClassifyNext ==
    \/ \E input \in ClassifyInputs : lastOp.op = "init" /\ Navigate(input)
    \/ UrlSyncEffect
    \/ \E k \in 1..Len(timers) : TimerFire(k)
    \/ AdBlockTick(FALSE)
    \/ DownloadTick
    \/ Advance

SpecClassify == Init /\ [][ClassifyNext]_vars

(***************************************************************************)
(* Properties of the navigation engine.                                     *)
(***************************************************************************)
Str_hostA == Str_https \o In_hostA
Str_queryUrl == Str_searchq \o <<"a", "%", "2", "0", "b">>

\* C1: in every state reachable by navigate, back, forward, reload and reset,
\* 0 <= historyIndex < historyStack.length.
C1_HistoryIndexInRange == 0 <= historyIndex /\ historyIndex < Len(history)

\* back() has walked a stack of several entries down to its first one
C1_Witness == lastOp.op = "back" /\ historyIndex = 0 /\ Len(history) = MaxStack

\* C2: a navigate made with stack S at index i leaves S[0..i] followed by the
\* new URL, at the new last index; from [A,B,C] at index 2, back() then
\* navigate(D) gives [A,B,D] at index 2.
C2_ForwardTruncation ==
    [][/\ lastOp'.op = "navigate" =>
            /\ history' = SubSeq(history, 1, historyIndex + 1) \o <<url'>>
            /\ Len(history') = historyIndex + 2
            /\ historyIndex' = Len(history') - 1
       /\ (lastOp'.op = "back" /\ history = <<Str_newtab, Str_hostA, Str_queryUrl>>
            /\ historyIndex = 2) =>
            /\ history' = history
            /\ historyIndex' = 1
       /\ (lastOp' = Op("navigate", In_empty, 1)
            /\ history = <<Str_newtab, Str_hostA, Str_queryUrl>> /\ historyIndex = 1) =>
            /\ history' = <<Str_newtab, Str_hostA, Str_newtab>>
            /\ historyIndex' = 2
      ]_vars

\* a navigate has discarded the forward entry of [A,B,C] and pushed D
C2_Witness ==
    /\ lastOp = Op("navigate", In_empty, 1)
    /\ history = <<Str_newtab, Str_hostA, Str_newtab>>
    /\ historyIndex = 2

\* C3: the completion of a navigate that a later navigate has superseded
\* never clears the Loading flag: Loading stays set while the latency of the
\* later navigate has not elapsed.
C3_SupersededCompletionKeepsLoading ==
    [][(/\ lastOp'.op = "timer"
        /\ lastOp'.aux > 0
        /\ timers'[Len(timers')].rem > 0) => isLoading' = isLoading]_vars

(***************************************************************************)
(* Properties of the classification of the input.                           *)
(***************************************************************************)
HasSeparator(t) == \E i \in 1..(Len(t) - 2) : SubSeq(t, i, i + 2) = <<":", "/", "/">>
HasDot(t) == \E i \in 1..Len(t) : t[i] = "."
HasSpace(t) == \E i \in 1..Len(t) : t[i] = " "
HasWhiteSpace(t) == \E i \in 1..Len(t) : t[i] \in {" ", "\t", "\n"}
Classified(t) == t # <<>> /\ t # Str_newtab

\* C8 as stated: without '://' the page is External exactly when the input has
\* a '.' and no whitespace character, SearchResults otherwise; with '://' it is
\* External.
C8_WhitespaceClassification ==
    lastOp.op = "navigate" =>
        LET t == Trim(lastOp.arg)
        IN  Classified(t) =>
                IF HasSeparator(t) THEN internalPage = "external"
                ELSE IF HasDot(t) /\ ~HasWhiteSpace(t)
                     THEN internalPage = "external"
                     ELSE internalPage = "search"

\* C8, amended: without '://' the page navigate sets is External exactly when
\* the input has a '.' and no space character (U+0020), SearchResults
\* otherwise; with '://' it is External.
C8_SpaceClassification ==
    lastOp.op = "navigate" =>
        LET t == Trim(lastOp.arg)
        IN  Classified(t) =>
                IF HasSeparator(t) THEN internalPage = "external"
                ELSE IF HasDot(t) /\ ~HasSpace(t)
                     THEN internalPage = "external"
                     ELSE internalPage = "search"

\* an input with a '.' and a tab but no space has been navigated to as a host
C8_Witness ==
    /\ lastOp.op = "navigate"
    /\ LET t == Trim(lastOp.arg)
       IN  /\ ~HasSeparator(t) /\ HasDot(t) /\ HasWhiteSpace(t) /\ ~HasSpace(t)
           /\ internalPage = "external"

\* C9: for every bare host (no '://', a '.', no whitespace) the URL stored as
\* currentUrl and pushed on the stack is 'https://' followed by the input.
C9_BareHostGetsScheme ==
    lastOp.op = "navigate" =>
        LET t == Trim(lastOp.arg)
        IN  (Classified(t) /\ ~HasSeparator(t) /\ HasDot(t) /\ ~HasWhiteSpace(t)) =>
                /\ url = <<"h","t","t","p","s",":","/","/">> \o t
                /\ history[Len(history)] = url

\* C10: for every search query q, navigate sets activePage = SearchResults,
\* activeQuery = q, currentUrl = 'chimera://search?q=' + percentEncode(q) as the
\* new last stack entry, and searchResults = synthesize(q), 8 entries.
C10_SearchNavigation ==
    lastOp.op = "navigate" =>
        LET q == Trim(lastOp.arg)
        IN  (Classified(q) /\ ~HasSeparator(q) /\ ~(HasDot(q) /\ ~HasSpace(q))) =>
                /\ internalPage = "search"
                /\ searchQuery = q
                /\ url = Str_searchq \o EncodeURIComponent(q)
                /\ (q = <<"a", " ", "a">> =>
                        url = <<"c","h","i","m","e","r","a",":","/","/","s","e","a","r","c","h",
                                "?","q","=","a","%","2","0","a">>)
                /\ history[Len(history)] = url
                /\ historyIndex = Len(history) - 1
                /\ searchResults = GenerateMockResults(q)
                /\ Len(searchResults) = 8
                /\ \A k \in 1..Len(searchResults) : searchResults[k].title.query = q

\* the query "a a" has been navigated to
C10_Witness ==
    /\ lastOp = Op("navigate", <<"a", " ", "a">>, 0)
    /\ internalPage = "search"
    /\ Len(searchResults) = 8

(***************************************************************************)
(* Downloads: the media grabber starts downloads and the interval ticks.    *)
(***************************************************************************)
DownloadsNext ==
    \/ \E type \in DownloadTypes : StartDownload(<<"f">>, type)
    \/ DownloadTick
    \/ ClearDownloads
    \/ ResetBrowser
    \/ Advance

SpecDownloads == Init /\ [][DownloadsNext]_vars

(***************************************************************************)
(* Bookmarks: the star button, the bookmarks panel and its import, with one *)
(* navigation, to the first bookmark of the bar or to a search.             *)
(***************************************************************************)
BookmarksNext ==
    \/ bookmarks # <<>> /\ Len(history) = 1 /\ Navigate(bookmarks[1].url)
    \/ Len(history) = 1 /\ Navigate(In_query)
    \/ UrlSyncEffect
    \/ ToggleBookmark
    \/ \E k \in 1..Len(bookmarks) : DeleteBookmark(bookmarks[k].id)
    \/ \E doc \in ImportDocuments : ImportBookmarks(doc)
    \/ ClockAdvance

SpecBookmarks == Init /\ [][BookmarksNext]_vars

(***************************************************************************)
(* Properties of the download simulator.                                    *)
(***************************************************************************)
\* C4: a download tick never lowers the progress of an entry nor takes it
\* past 100, and an entry becomes Completed in exactly the tick in which its
\* progress reaches 100.
C4_DownloadMonotonicity ==
    [][lastOp'.op = "downloadTick" =>
          /\ Len(downloads') = Len(downloads)
          /\ \A k \in 1..Len(downloads) :
                /\ downloads'[k].progress >= downloads[k].progress
                /\ downloads'[k].progress <= 100
                /\ (downloads[k].status = "downloading" /\ downloads'[k].status = "completed")
                       <=> (downloads[k].progress < 100 /\ downloads'[k].progress = 100)
                /\ downloads'[k].status = "completed" <=> downloads'[k].progress = 100
      ]_vars

\* a tick has just completed an entry
C4_Witness ==
    /\ lastOp.op = "downloadTick"
    /\ lastOp.aux > 0
    /\ \E k \in 1..Len(downloads) :
          downloads[k].status = "completed" /\ downloads[k].progress = 100

(***************************************************************************)
(* Properties of the bookmark manager.                                      *)
(***************************************************************************)
SecondToggle == lastOp.op = "toggle" /\ lastOp'.op = "toggle" /\ bookmarks' # bookmarks

\* C5 as stated: toggle twice in a row with the same URL restores the
\* bookmark sequence, whether or not the URL was bookmarked beforehand.
C5_ToggleTwiceRestores == [][SecondToggle => bookmarks' = lastOp.arg]_vars

\* C5, amended: toggle twice in a row restores the sequence when the URL was
\* not bookmarked beforehand; when it was, the entries for other URLs keep
\* their ids, titles and order, every entry for the URL is gone and one new
\* entry for it, with the id of the moment, is last.
C5_ToggleTwice ==
    [][SecondToggle =>
          LET before == lastOp.arg
              others == SelectSeq(before, LAMBDA b : b.url # url)
          IN  IF others = before
              THEN bookmarks' = before
              ELSE /\ Len(bookmarks') = Len(others) + 1
                   /\ SubSeq(bookmarks', 1, Len(others)) = others
                   /\ bookmarks'[Len(bookmarks')].url = url
                   /\ bookmarks'[Len(bookmarks')].id = <<"now", clock>>
      ]_vars

\* the second of two toggles has put back the bookmark of a seeded URL
C5_Witness ==
    /\ lastOp.op = "toggle"
    /\ lastOp.aux = 1
    /\ url = Str_wikipedia
    /\ \A k \in 1..Len(lastOp.arg) : lastOp.arg[k].url # url
    /\ \E k \in 1..Len(bookmarks) : bookmarks[k].url = url

RejectedImport == lastOp'.op = "import" /\ lastOp'.arg[1] \in {"malformed", "object", "scalar"}

\* C6: an import of a JSON object, of a JSON scalar or of malformed text
\* leaves the bookmark sequence as it was and raises no exception.
C6_RejectedImportLeavesState ==
    [][RejectedImport => (bookmarks' = bookmarks /\ ~crashed')]_vars

\* a JSON object has been imported and turned down
C6_Witness ==
    /\ lastOp.op = "import"
    /\ lastOp.arg[1] = "object"
    /\ ~crashed
    /\ bookmarks # <<>>

\* C7: every rejected import, of malformed text as of a JSON value that is no
\* array, reports a failure to the diagnostics.
C7_RejectedImportReports == [][RejectedImport => consoleLog' # <<>>]_vars

(***************************************************************************)
(* Stack traversal: two different searches and a host, then back and        *)
(* forward over the stack they built (the history panel may be cleared).    *)
(***************************************************************************)
In_queryB == <<"b", " ", "a">>

TraverseInputs == {In_query, In_queryB, In_hostA}

TraverseNext ==
    \/ \E input \in TraverseInputs : Navigate(input)
    \/ UrlSyncEffect
    \/ HandleBack
    \/ HandleForward
    \/ ClearHistory
    \/ \E k \in 1..Len(timers) : TimerFire(k)
    \/ AdBlockTick(FALSE)
    \/ DownloadTick
    \/ Advance

SpecTraverse == Init /\ [][TraverseNext]_vars

\* the page, query and results that the shape of u stands for
DerivedFrom(u) ==
    IF u = Str_newtab THEN internalPage = "newtab"
    ELSE IF StartsWith(u, Str_search)
         THEN /\ internalPage = "search"
              /\ searchQuery = DecodeURIComponent(SplitQ1(u))
              /\ searchResults = GenerateMockResults(searchQuery)
         ELSE internalPage = "external"

\* back or forward has moved the index and the render it caused is complete
Traversed ==
    /\ ~crashed
    /\ ~urlEffect
    /\ \/ lastOp.op \in {"back", "forward"} /\ lastOp.aux = 1
       \/ lastOp.op = "urlEffect" /\ lastOp.arg \in {<<"back">>, <<"forward">>}

\* C11: after a back or forward that moved the index, url is the stack entry
\* at the new index, and the page, the query and the search results are the
\* ones derived from the shape of that URL.
C11_TraversalRederives ==
    Traversed => url = history[historyIndex + 1] /\ DerivedFrom(url)

(***************************************************************************)
(* The ad blocker: navigations and reloads set the Loading flag, the        *)
(* interval counts blocked requests while it is set, and the switch of the  *)
(* settings panel turns the blocker off and on.                             *)
(***************************************************************************)
AdBlockInputs == {In_hostA, In_query, In_empty, Str_newtab}

AdBlockNext ==
    \/ \E input \in AdBlockInputs : Navigate(input)
    \/ UrlSyncEffect
    \/ Reload
    \/ ClearHistory
    \/ ToggleAdBlock
    \/ \E k \in 1..Len(timers) : TimerFire(k)
    \/ \E hit \in BOOLEAN : AdBlockTick(hit)
    \/ DownloadTick
    \/ Advance

SpecAdBlock == Init /\ [][AdBlockNext]_vars

\* C12: every navigate, a navigate to the new tab or with empty input
\* included, leaves sessionBlocked at 0 and the other fields of adBlockStats
\* as they were.
C12_NavigateResetsSessionBlocked ==
    [][lastOp'.op = "navigate" =>
          adBlockStats' = [adBlockStats EXCEPT !.sessionBlocked = 0]]_vars

(***************************************************************************)
(* Persistence: one session changes every durable field in turn (the theme, *)
(* the bookmarks, a download, a navigation with its blocked request), time  *)
(* passes, and at any moment between two events the process may restart     *)
(* over what localStorage holds.  The download gains 0 or 7 percent once.   *)
(***************************************************************************)
PersistNext ==
    \/ theme = "dark" /\ SetTheme("light")
    \/ theme = "light" /\ Len(bookmarks) = Len(SeedBookmarks) /\ DeleteBookmark(bookmarks[1].id)
    \/ Len(bookmarks) < Len(SeedBookmarks) /\ downloads = <<>> /\ StartDownload(<<"f">>, "video")
    \/ downloads # <<>> /\ Len(history) = 1 /\ Navigate(In_hostA)
    \/ UrlSyncEffect
    \/ \E k \in 1..Len(timers) : TimerFire(k)
    \/ \E hit \in BOOLEAN : AdBlockTick(hit)
    \/ DownloadTick /\ \A k \in 1..Len(downloads) : downloads'[k].progress \in {0, MaxIncrement - 1}
    \/ Advance
    \/ \E items \in FoundItems : Quiet /\ Restart(items)

SpecPersist == Init /\ [][PersistNext]_vars

\* C13: a restart over the stored items gives every durable field the value
\* it had in memory before the restart.
C13_RestartRestoresDurableState ==
    [][lastOp'.op = "restart" /\ lastOp'.arg = <<>> => Durable' = Durable]_vars

C13_Witness ==
    /\ lastOp.op = "restart"
    /\ lastOp.arg = <<>>
    /\ url = Str_hostA
    /\ Len(history) = 2
    /\ historyIndex = 1
    /\ theme = "light"
    /\ Len(bookmarks) = Len(SeedBookmarks) - 1
    /\ Len(visitedHistory) = 2
    /\ downloads # <<>> /\ downloads[1].progress > 0
    /\ adBlockStats.totalBlocked = InitialTotalBlocked + 1

\* C14: when the stored text of a key cannot be parsed at a restart, that
\* field takes its default, every other durable field loads the value it
\* had, the failure is written to the console and the construction goes on.
C14_DamagedItemFallsBack ==
    [][lastOp'.op = "restart" /\ lastOp'.aux = 1 =>
          LET damaged == lastOp'.arg[1]
          IN  /\ Len(lastOp'.arg) = 1
              /\ Durable'[damaged] = Defaults[damaged]
              /\ \A key \in StoreKeys \ {damaged} : Durable'[key] = Durable[key]
              /\ consoleLog' = <<<<"Error reading from localStorage", damaged>>>>
              /\ ~crashed']_vars

C14_Witness ==
    /\ lastOp = Op("restart", <<"chimera_adblock">>, 1)
    /\ adBlockStats = Defaults.chimera_adblock
    /\ consoleLog # <<>>
    /\ theme = "light"
    /\ Len(history) = 2
    /\ downloads # <<>>

(***************************************************************************)
(* The result synthesizer over sessions: two queries are searched again and *)
(* again, at different times, positions of the stack and sessions.          *)
(***************************************************************************)
SynthNext ==
    \/ \E input \in {In_query, In_queryB} : Navigate(input)
    \/ UrlSyncEffect
    \/ HandleBack
    \/ ClearHistory
    \/ ClockAdvance
    \/ Quiet /\ Restart(store)

SpecSynth == Init /\ [][SynthNext]_vars

LongLog ==
    [i \in 1..HistoryLimit |->
        IF i % 2 = 1
        THEN [title |-> Hostname(Str_hostA), url |-> Str_hostA]
        ELSE [title |-> Str_SearchTitle \o In_query, url |-> Str_queryUrl]]

InitLongLog ==
    /\ clock = 0
    /\ url = Str_newtab
    /\ history = <<Str_newtab, Str_hostA>>
    /\ historyIndex = 0
    /\ isLoading = FALSE
    /\ internalPage = "newtab"
    /\ searchQuery = In_query
    /\ searchResults = GenerateMockResults(In_query)
    /\ bookmarks = SeedBookmarks
    /\ visitedHistory = LongLog
    /\ downloads = <<>>
    /\ adBlockStats = Defaults.chimera_adblock
    /\ showBookmarks = FALSE
    /\ showDownloads = FALSE
    /\ showHistory = FALSE
    /\ timers = <<>>
    /\ urlEffect = FALSE
    /\ crashed = FALSE
    /\ consoleLog = <<>>
    /\ adBlockInterval = NoInterval
    /\ netInterval = NetPeriodMs \div TimeUnitMs
    /\ downloadInterval = DownloadPeriodMs \div TimeUnitMs
    /\ netSpeed = [sampled |-> FALSE, loading |-> FALSE, active |-> 0]
    /\ theme = "dark"
    /\ store = [key \in StoreKeys |->
                   StoredJson(Stringify(key,
                       CASE key = "chimera_history_stack" -> <<Str_newtab, Str_hostA>>
                         [] key = "chimera_visited_history" -> LongLog
                         [] OTHER -> Defaults[key]))]
    /\ lastOp = Op("back", <<>>, 1)

VisitedInputs == {In_hostA, In_query, In_queryB, In_empty}

VisitedNext ==
    \/ \E input \in VisitedInputs : Navigate(input)
    \/ UrlSyncEffect
    \/ HandleBack
    \/ HandleForward
    \/ ClearHistory

SpecVisited == InitLongLog /\ [][VisitedNext]_vars

\* C16: the visited-history log never holds more than 1000 entries; a
\* navigate to a URL other than that of the head entry puts its entry at the
\* head, moves the others down by one and drops what lies beyond the limit;
\* a navigate to the URL of the head entry leaves the log unchanged.
C16_VisitedLogDiscipline ==
    /\ [](Len(visitedHistory) <= HistoryLimit)
    /\ [][lastOp'.op = "navigate" =>
             IF visitedHistory # <<>> /\ visitedHistory[1].url = url'
             THEN visitedHistory' = visitedHistory
             ELSE /\ Len(visitedHistory') = Min(Len(visitedHistory) + 1, HistoryLimit)
                  /\ visitedHistory'[1].url = url'
                  /\ \A i \in 2..Len(visitedHistory') :
                         visitedHistory'[i] = visitedHistory[i - 1]]_vars

C16_Witness ==
    /\ lastOp.op = "navigate"
    /\ Len(visitedHistory) = HistoryLimit
    /\ visitedHistory[1].url = Str_searchq \o EncodeURIComponent(In_queryB)
    /\ visitedHistory[2] = LongLog[1]
    /\ visitedHistory[HistoryLimit] = LongLog[HistoryLimit - 1]

\* C17: no two entries of the bookmark sequence have the same id, whatever
\* toggles, deletions and imports (of an exported file too) have happened.
C17_BookmarkIdsUnique ==
    \A i, j \in 1..Len(bookmarks) : bookmarks[i].id = bookmarks[j].id => i = j

\* ---- the side panels: keyboard, toolbar, close buttons, Media Grabber ----

\* the numbers Math.floor(Math.random() * 1000) is drawn from: its least and
\* its greatest value
VideoNumbers == {0, 999}

PanelsNext ==
    \/ \E key \in PanelKeys : HandleKeyDown(key)
    \/ \E panel \in Panels : PanelButton(panel)
    \/ \E panel \in Panels : ClosePanel(panel)
    \/ \E n \in VideoNumbers : HandleMediaGrab(Str_example, n)
    \/ ClearDownloads
    \/ DownloadTick
    \/ Advance

SpecPanels == Init /\ [][PanelsNext]_vars

\* C18: at most one of the bookmarks, history and downloads panels is shown
\* in any reachable state, and a step that opens a panel (a keyboard command,
\* a toolbar button) or starts a download leaves the two other panels closed,
\* with the downloads panel shown after a download was started.
C18_PanelsMutuallyExclusive ==
    /\ [](VisiblePanels <= 1)
    /\ [][/\ \A panel \in Panels :
                 (~Shown(panel) /\ Shown(panel)') =>
                     \A other \in Panels \ {panel} : ~Shown(other)'
          /\ lastOp'.op = "startDownload" =>
                 showDownloads' /\ ~showBookmarks' /\ ~showHistory']_vars

C18_Witness ==
    /\ lastOp.op \in {"keydown", "panelButton"}
    /\ lastOp.aux = 1
    /\ VisiblePanels = 1
    /\ downloads # <<>>

\* ---- reload and the Loading flag, with timers and intervals that fire ----

ReloadNext ==
    \/ Len(history) < MaxStack /\ Navigate(In_hostA)
    \/ UrlSyncEffect
    \/ Reload
    \/ \E k \in 1..Len(timers) : TimerFire(k)
    \/ AdBlockTick(FALSE)
    \/ DownloadTick
    \/ Advance

\* a pending effect runs, a due timeout or interval callback runs, and time
\* passes; the user is under no obligation to act
ReloadFairness ==
    /\ WF_vars(UrlSyncEffect)
    /\ WF_vars(\E k \in 1..Len(timers) : TimerFire(k))
    /\ WF_vars(AdBlockTick(FALSE))
    /\ WF_vars(DownloadTick)
    /\ WF_vars(Advance)

SpecReload == Init /\ [][ReloadNext]_vars /\ ReloadFairness

\* C19: a reload leaves the history stack, the index, the current URL, the
\* active page and the active query unchanged and sets the Loading flag, and
\* after a reload the Loading flag is eventually cleared again, given that
\* timers fire.
C19_ReloadLoadingTransient ==
    /\ [][lastOp'.op = "reload" =>
              /\ UNCHANGED <<history, historyIndex, url, internalPage, searchQuery>>
              /\ isLoading']_vars
    /\ [](lastOp.op = "reload" => <>(~isLoading))

\* ---- the three interval effects side by side ----

\* NetworkTick, the callback of the network-statistics interval, is no
\* disjunct: its interval is cleared and created afresh by every render that
\* follows a download tick, and the formula below asks whether the callback
\* ever becomes due
TicksNext ==
    \/ Len(history) < MaxStack /\ Navigate(In_hostA)
    \/ UrlSyncEffect
    \/ Reload
    \/ ToggleAdBlock
    \/ downloads = <<>> /\ StartDownload(<<"f">>, "video")
    \/ \E k \in 1..Len(timers) : TimerFire(k)
    \/ \E hit \in BOOLEAN : AdBlockTick(hit)
    \/ DownloadTick /\ \A k \in 1..Len(downloads) :
                           downloads'[k].progress - downloads[k].progress \in {0, MaxIncrement - 1}
    \/ Advance

\* a pending effect runs, a due timeout or interval callback runs, and time
\* passes
TicksFairness ==
    /\ WF_vars(UrlSyncEffect)
    /\ WF_vars(\E k \in 1..Len(timers) : TimerFire(k))
    /\ WF_vars(\E hit \in BOOLEAN : AdBlockTick(hit))
    /\ WF_vars(DownloadTick /\ \A k \in 1..Len(downloads) :
                   downloads'[k].progress - downloads[k].progress \in {0, MaxIncrement - 1})
    /\ WF_vars(Advance)

SpecTicks == Init /\ [][TicksNext]_vars /\ TicksFairness

\* C20: the three periodic tasks fire independently at their own intervals:
\* the download-progress tick fires infinitely often, the network-sample
\* tick becomes due infinitely often while the download tick keeps rewriting
\* the download list, and the ad-block tick fires infinitely often while its
\* interval exists (ad-block enabled and a page loading).
C20_PeriodicTasksIndependent ==
    /\ []<>(lastOp.op = "downloadTick")
    /\ []<>(ENABLED NetworkTick)
    /\ (<>[](isLoading /\ adBlockStats.enabled)) => []<>(lastOp.op = "adBlockTick")

\* C21: a tick of the ad-block interval changes adBlockStats only in a state
\* where the blocker is enabled and the page is loading, and then it adds
\* exactly 1 to totalBlocked and 1 to sessionBlocked in the one step; with
\* the page not loading or the blocker disabled no tick changes a counter.
C21_AdBlockCounterGuard ==
    [][lastOp'.op = "adBlockTick" =>
          /\ adBlockStats' # adBlockStats =>
                 /\ adBlockStats.enabled /\ isLoading
                 /\ adBlockStats' = [adBlockStats EXCEPT !.totalBlocked = @ + 1,
                                                         !.sessionBlocked = @ + 1]
          /\ (~isLoading \/ ~adBlockStats.enabled) => adBlockStats' = adBlockStats]_vars

C21_Witness ==
    /\ lastOp.op = "adBlockTick"
    /\ lastOp.aux = 1
    /\ adBlockStats.enabled /\ isLoading
    /\ adBlockStats.totalBlocked = InitialTotalBlocked + 1
    /\ adBlockStats.sessionBlocked = 1

\* C22: handleBack at historyIndex = 0 and handleForward at the last index
\* leave the stack, the index, the URL, the page, the query, the results and
\* the visited log unchanged; a handleBack or handleForward that moves
\* changes the index by exactly one and leaves the stack and the visited log
\* as they were.
C22_TraversalBoundaries ==
    [][/\ lastOp'.op = "back" =>
              IF historyIndex = 0
              THEN UNCHANGED <<history, historyIndex, url, internalPage, searchQuery,
                               searchResults, visitedHistory>>
              ELSE /\ historyIndex' = historyIndex - 1
                   /\ UNCHANGED <<history, visitedHistory>>
       /\ lastOp'.op = "forward" =>
              IF historyIndex = Len(history) - 1
              THEN UNCHANGED <<history, historyIndex, url, internalPage, searchQuery,
                               searchResults, visitedHistory>>
              ELSE /\ historyIndex' = historyIndex + 1
                   /\ UNCHANGED <<history, visitedHistory>>]_vars

C22_Witness ==
    /\ lastOp.op = "back"
    /\ lastOp.aux = 0
    /\ historyIndex = 0
    /\ Len(history) = MaxStack
    /\ url = Str_newtab

\* C23: a navigate whose input is empty after trimming or is the new-tab
\* address shows the new-tab page at the new-tab URL, cuts the stack to
\* historyIndex + 1 entries and appends the new-tab URL, leaves the query
\* empty, and leaves the Loading flag, sessionBlocked and the pending
\* Loading timers as they were.
C23_NewTabNavigation ==
    [][(/\ lastOp'.op = "navigate"
        /\ Trim(lastOp'.arg) \in {<<>>, Str_newtab}) =>
           /\ internalPage' = "newtab"
           /\ url' = Str_newtab
           /\ history' = SubSeq(history, 1, historyIndex + 1) \o <<Str_newtab>>
           /\ historyIndex' = historyIndex + 1
           /\ searchQuery' = <<>>
           /\ isLoading' = isLoading
           /\ adBlockStats'.sessionBlocked = adBlockStats.sessionBlocked
           /\ timers' = timers]_vars

\* ---- the slots of the synthesizer, over hashes of either sign ----

\* queries by their wrapped hash: 94307, 2^31 - 1425372063 below zero (odd),
\* 2^31 - 1425372062 below zero (even), and -2^31
In_queryNegOdd == <<"a", "a", "a", "a", "a", "b">>
In_queryNegEven == <<"a", "a", "a", "a", "a", "c">>
In_queryMinInt == <<"G", "y", "d", "Z", "G", "_">>

SlotQueries == {In_query, In_queryB, In_queryNegOdd, In_queryNegEven, In_queryMinInt}

\* a search loads for 600 ms, so the 800 ms ad-block interval never comes due
SlotsNext ==
    \/ \E query \in SlotQueries : Len(history) = 1 /\ Navigate(query)
    \/ UrlSyncEffect
    \/ ResetBrowser
    \/ \E k \in 1..Len(timers) : TimerFire(k)
    \/ DownloadTick
    \/ Advance

SpecSlots == Init /\ [][SlotsNext]_vars

\* the results a search navigate has just stored
FreshResults == lastOp.op = "navigate" /\ internalPage = "search" /\ searchQuery = lastOp.arg

\* the residue modulo 4 of hash + i, hash being the wrapped hash read as a
\* signed 32-bit integer: 2^16 and 2^32 are multiples of 4
SignedSlotResidue(query, i) == (QueryHash(query).lo + i) % 4

\* the residue modulo 4 of |hash| + i
AbsSlotResidue(query, i) == (Abs32(QueryHash(query)).lo + i) % 4

\* C24 as stated: with seed_i = hash + i, hash the wrapped 32-bit hash of the
\* query, result i is an ad exactly when seed_i is divisible by 4 and its
\* label is the tag at index seed_i mod 4.
C24_SlotSelectionBySignedHash ==
    FreshResults =>
        \A i \in 0..(ResultCount - 1) :
            /\ searchResults[i + 1].ads = (SignedSlotResidue(searchQuery, i) = 0)
            /\ searchResults[i + 1].title.type =
                   ResultTypes[SignedSlotResidue(searchQuery, i) + 1]

\* C24, amended: with seed_i = |hash| + i, the absolute value of the wrapped
\* 32-bit hash of the query plus the slot index, result i is an ad exactly
\* when seed_i is divisible by 4 and its label is the tag at index
\* seed_i mod 4, an index in 0..3 for hashes of either sign, -2^31 included.
C24_SlotSelection ==
    FreshResults =>
        \A i \in 0..(ResultCount - 1) :
            /\ AbsSlotResidue(searchQuery, i) \in 0..3
            /\ searchResults[i + 1].ads = (AbsSlotResidue(searchQuery, i) = 0)
            /\ searchResults[i + 1].title.type =
                   ResultTypes[AbsSlotResidue(searchQuery, i) + 1]

C24_Witness ==
    /\ FreshResults
    /\ IsNegative32(QueryHash(searchQuery))
    /\ QueryHash(searchQuery).lo % 2 = 1
    /\ searchResults[2].ads
    /\ searchResults[1].title.type = "Blog"

\* C25: in every state reachable by navigate, back, forward, reload and
\* reset, the current URL is the entry of the history stack at historyIndex.
C25_UrlIsStackEntry ==
    /\ historyIndex + 1 \in DOMAIN history
    /\ url = history[historyIndex + 1]

C25_Witness ==
    /\ lastOp.op = "forward"
    /\ lastOp.aux = 1
    /\ historyIndex = 1
    /\ Len(history) = MaxStack
    /\ url = history[2]
    /\ url # history[1]
    /\ url # history[3]

\* ---- the page against the shape of the URL ----

\* inputs: a query, the internal search URL of that query, a host, nothing
SyncInputs == {In_query, Str_queryUrl, In_hostA, In_empty}

SyncNext ==
    \/ \E input \in SyncInputs : Navigate(input)
    \/ UrlSyncEffect
    \/ HandleBack
    \/ ClearHistory
    \/ \E k \in 1..Len(timers) : TimerFire(k)
    \/ AdBlockTick(FALSE)
    \/ DownloadTick
    \/ Advance

SpecSync == Init /\ [][SyncNext]_vars

\* the page the [url] effect selects for a URL
ClassifyUrl(u) ==
    IF u = Str_newtab THEN "newtab"
    ELSE IF StartsWith(u, Str_search) THEN "search"
    ELSE "external"

\* C26: once the [url] effect that follows an operation has run, the page is
\* the one the shape of the current URL selects: the new-tab page for the
\* new-tab URL, the search page for a URL with the internal search prefix,
\* the external page for any other URL; also after navigating to an input
\* that is an internal search URL, and to the URL that is already current.
C26_PageFollowsUrl ==
    Idle => internalPage = ClassifyUrl(url)

\* ---- imports of files that were not exported by this program ----

\* a JSON array whose one element is the object {"title": "e"}
ForeignDocument == [kind |-> "array", items |-> <<[title |-> <<"e">>]>>]

ImportNext ==
    \/ bookmarks # <<>> /\ Len(history) = 1 /\ Navigate(bookmarks[1].url)
    \/ UrlSyncEffect
    \/ ToggleBookmark
    \/ \E k \in 1..Len(bookmarks) : DeleteBookmark(bookmarks[k].id)
    \/ \E doc \in ImportDocuments \cup {ForeignDocument} : ImportBookmarks(doc)
    \/ ClockAdvance

SpecImport == Init /\ [][ImportNext]_vars

\* the fields of a Bookmark
BookmarkFields == {"id", "title", "url", "createdAt"}

\* C27: every element of the bookmark sequence is a record with exactly the
\* fields id, title, url and createdAt, whatever has been toggled, deleted
\* and imported, and no import ends with the component unable to render its
\* bookmarks.
C27_BookmarksWellFormed ==
    /\ \A k \in 1..Len(bookmarks) : DOMAIN bookmarks[k] = BookmarkFields
    /\ lastOp.op = "import" => ~crashed

\* C28: in every state reachable by startDownload, download ticks, Clear and
\* Reset Browser, an entry that is downloading has 0 <= progress < 100, an
\* entry that is completed has progress = 100, no entry has status error, and
\* a tick leaves every completed entry as it was.
C28_DownloadStates ==
    /\ [](\A k \in 1..Len(downloads) :
              /\ downloads[k].status \in {"downloading", "completed"}
              /\ downloads[k].status = "downloading" =>
                     0 <= downloads[k].progress /\ downloads[k].progress < FullProgress
              /\ downloads[k].status = "completed" => downloads[k].progress = FullProgress)
    /\ [][lastOp'.op = "downloadTick" =>
              \A k \in 1..Len(downloads) :
                  downloads[k].status = "completed" => downloads'[k] = downloads[k]]_vars

C28_Witness ==
    /\ lastOp.op = "downloadTick"
    /\ Len(downloads) = 2
    /\ downloads[1].status = "downloading"
    /\ downloads[1].progress > 0
    /\ downloads[2].status = "completed"
    /\ downloads[2].progress = FullProgress

\* ---- downloads under ticks that keep firing and keep making progress ----

\* time passes, the due download tick runs, and the increments drawn by
\* Math.random() * 8 are not zero for ever
FinishFairness ==
    /\ WF_vars(Advance)
    /\ WF_vars(DownloadTick)
    /\ SF_vars(DownloadTick /\ downloads' # downloads)

SpecFinish == Init /\ [][DownloadsNext]_vars /\ FinishFairness

\* the entry at place j counted from the oldest one: startDownload prepends,
\* so the place stays the same until Clear or Reset Browser empties the list
FromOldest(j) == downloads[Len(downloads) + 1 - j]

\* C29: an entry that is downloading is eventually completed, unless Clear
\* or Reset Browser removes it, given ticks that keep firing with increments
\* that are not zero for ever; and startDownload puts the new entry first
\* with progress 0 and keeps every existing entry, in order, as it was.
C29_DownloadsFinish ==
    /\ \A j \in 1..MaxDownloads :
           (Len(downloads) >= j /\ FromOldest(j).status = "downloading")
               ~> (\/ Len(downloads) < j
                   \/ Len(downloads) >= j /\ FromOldest(j).status = "completed")
    /\ [][lastOp'.op = "startDownload" =>
              /\ Len(downloads') = Len(downloads) + 1
              /\ downloads'[1].progress = 0
              /\ downloads'[1].status = "downloading"
              /\ \A k \in 1..Len(downloads) : downloads'[k + 1] = downloads[k]]_vars

C29_Witness ==
    /\ lastOp.op = "downloadTick"
    /\ lastOp.aux = 1
    /\ Len(downloads) = 2
    /\ downloads[1].status = "completed"
    /\ downloads[2].status = "completed"

\* the slots of the results held that are flagged as ads
AdSlots == {i \in 0..(ResultCount - 1) : searchResults[i + 1].ads}

\* C30: of the eight results synthesized for a query exactly two are flagged
\* as ads, and the flagged results are exactly those labelled with the first
\* of the four tags.
C30_TwoAdsPerQuery ==
    FreshResults =>
        /\ Cardinality(AdSlots) = 2
        /\ \A i \in 0..(ResultCount - 1) :
               searchResults[i + 1].ads <=> searchResults[i + 1].title.type = ResultTypes[1]

C30_Witness ==
    /\ FreshResults
    /\ searchQuery = In_queryNegEven
    /\ AdSlots = {2, 6}
    /\ searchResults[3].title.type = "Official"

====
